---- MODULE Spec2Model ----
(***************************************************************************)
(* CyberRAG query safety gateway: app/rag_engine.py (RAGEngine) and the    *)
(* execution guard of app/database.py.                                     *)
(*                                                                         *)
(* Text is modelled as a sequence of atoms.  An atom is either one         *)
(* punctuation / whitespace character or one maximal piece of word         *)
(* characters (\w+) that the model never splits.  Two adjacent word atoms  *)
(* are one longer word, exactly as in the Python strings, so a regex word  *)
(* boundary (\b) lies between two atoms iff exactly one of them is a word  *)
(* atom (or at either end of the text next to a word atom).                *)
(***************************************************************************)
EXTENDS Integers, Sequences, FiniteSets, TLC

VARIABLES
    pc,                 \* process_query: position in the coroutine
    raw_query,          \* process_query: natural_language_query
    clean_query,        \* process_query: clean_query
    parsed_response,    \* process_query: parsed_response
    sql_query,          \* process_query: sql_query
    retried_sql,        \* process_query: retried_sql
    query_result,       \* process_query: query_result
    response,           \* process_query: the returned dict
    llm_calls,          \* number of _call_llm invocations of the request
    llm_log,            \* how each _call_llm invocation ended, in order
    safe_calls,         \* statements passed to execute_query_safe, in order
    db_log,             \* statements passed on to execute_query, in order
    db_raised,          \* texts of the exceptions execute_query raised, in order
    db_fetched,         \* the rows execute_query returned, call by call
    fn_in,              \* pure-function harness: the input text
    fn_out,             \* pure-function harness: results so far
    fn_pc,              \* pure-function harness: position
    _pool,              \* database.py: the global _pool (NO_POOL: None)
    pools,              \* connections held of each pool created, by pool number
    tasks               \* the coroutines running execute_query

vars == <<pc, raw_query, clean_query, parsed_response, sql_query, retried_sql, query_result,
          response, llm_calls, llm_log, safe_calls, db_log, db_raised, db_fetched, fn_in, fn_out, fn_pc,
          _pool, pools, tasks>>

PoolVars == <<_pool, pools, tasks>>

(***************************************************************************)
(* Atoms and Python's character classes on them                            *)
(***************************************************************************)
SP == " "
QUOTE == "'"

\* \w+ atoms that consist of digits only, with their value and width
DigitAtoms == {"0", "50", "100", "1000"}

IntOf(a) ==
    CASE a = "0" -> 0
      [] a = "50" -> 50
      [] a = "100" -> 100
      [] a = "1000" -> 1000

Pow10Len(a) ==
    CASE a = "0" -> 10
      [] a = "50" -> 100
      [] a = "100" -> 1000
      [] a = "1000" -> 10000

\* VALID_COLUMNS (rag_engine.py lines 13-18)
VALID_COLUMNS ==
    {"id", "attack_id", "source_ip", "destination_ip", "source_country",
     "destination_country", "protocol", "source_port", "destination_port",
     "attack_type", "payload_size", "detection_label", "confidence_score",
     "ml_model", "affected_system", "port_type", "timestamp"}

\* the wildcard replacement's column names (rag_engine.py lines 181-183)
ReplacementColumns ==
    <<"attack_id", "source_ip", "destination_ip", "source_country",
      "destination_country", "protocol", "attack_type", "payload_size",
      "detection_label", "confidence_score", "ml_model", "affected_system",
      "timestamp">>

\* one-character atoms that are not word characters
PunctAtoms == {" ", "'", ";", ",", "\"", ".", "(", ")", "*", "-", "/", "="}

\* what \w+ matches: every other atom is a piece of word characters
IsWord(a) == a \notin PunctAtoms

\* what \s matches
IsSpace(a) == a = SP

\* str.upper() on one atom
Upper(a) ==
    CASE a = "select" -> "SELECT"
      [] a = "from" -> "FROM"
      [] a = "join" -> "JOIN"
      [] a = "drop" -> "DROP"
      [] a = "union" -> "UNION"
      [] a = "limit" -> "LIMIT"
      [] a = "limited" -> "LIMITED"
      [] a \in {"rate_limit", "rate_LIMIT"} -> "RATE_LIMIT"
      [] a \in {"cyber_attacks", "Cyber_Attacks"} -> "CYBER_ATTACKS"
      [] a = "users" -> "USERS"
      [] a = "pg_class" -> "PG_CLASS"
      [] a = "pg_tables" -> "PG_TABLES"
      [] a = "pg_stat_activity" -> "PG_STAT_ACTIVITY"
      [] a = "pg_sleep" -> "PG_SLEEP"
      [] a = "id" -> "ID"
      [] a = "attack_id" -> "ATTACK_ID"
      [] a = "source_ip" -> "SOURCE_IP"
      [] a = "destination_ip" -> "DESTINATION_IP"
      [] a = "source_country" -> "SOURCE_COUNTRY"
      [] a = "destination_country" -> "DESTINATION_COUNTRY"
      [] a = "protocol" -> "PROTOCOL"
      [] a = "attack_type" -> "ATTACK_TYPE"
      [] a = "payload_size" -> "PAYLOAD_SIZE"
      [] a = "detection_label" -> "DETECTION_LABEL"
      [] a = "confidence_score" -> "CONFIDENCE_SCORE"
      [] a = "ml_model" -> "ML_MODEL"
      [] a = "affected_system" -> "AFFECTED_SYSTEM"
      [] a = "timestamp" -> "TIMESTAMP"
      [] OTHER -> a

\* str.lower() on one atom
Lower(a) ==
    CASE a = "SELECT" -> "select"
      [] a = "FROM" -> "from"
      [] a = "JOIN" -> "join"
      [] a = "DROP" -> "drop"
      [] a = "UNION" -> "union"
      [] a = "LIMIT" -> "limit"
      [] a = "LIMITED" -> "limited"
      [] a \in {"RATE_LIMIT", "rate_LIMIT"} -> "rate_limit"
      [] a = "IMPORT" -> "import"
      [] a \in {"CYBER_ATTACKS", "Cyber_Attacks"} -> "cyber_attacks"
      [] a = "USERS" -> "users"
      [] a = "PG_CLASS" -> "pg_class"
      [] a = "PG_TABLES" -> "pg_tables"
      [] a = "PG_STAT_ACTIVITY" -> "pg_stat_activity"
      [] a = "PG_SLEEP" -> "pg_sleep"
      [] a = "ID" -> "id"
      [] OTHER -> a

\* str.upper() / str.lower() on a text
UpperSeq(s) == [i \in 1..Len(s) |-> Upper(s[i])]

(***************************************************************************)
(* Python string primitives                                                *)
(***************************************************************************)
RECURSIVE LStrip(_)
LStrip(s) == IF s # <<>> /\ IsSpace(Head(s)) THEN LStrip(Tail(s)) ELSE s

RECURSIVE RStrip(_)
RStrip(s) ==
    IF s # <<>> /\ IsSpace(s[Len(s)]) THEN RStrip(SubSeq(s, 1, Len(s) - 1))
    ELSE s

\* str.strip()
Strip(s) == RStrip(LStrip(s))

\* str.rstrip(";")
RECURSIVE RStripSemicolon(_)
RStripSemicolon(s) ==
    IF s # <<>> /\ s[Len(s)] = ";"
    THEN RStripSemicolon(SubSeq(s, 1, Len(s) - 1))
    ELSE s

\* x in text, for a one-atom x
Contains(s, a) == \E i \in 1..Len(s) : s[i] = a

\* x in text, for a two-character x made of two punctuation atoms
ContainsPair(s, a, b) == \E i \in 1..(Len(s) - 1) : s[i] = a /\ s[i + 1] = b

\* \b before position i / after position i, for a word atom at i
BoundaryBefore(s, i) == i = 1 \/ ~IsWord(s[i - 1])
BoundaryAfter(s, i) == i = Len(s) \/ ~IsWord(s[i + 1])

\* first position after the run of \s atoms that starts at i
RECURSIVE SkipSpaces(_, _)
SkipSpaces(s, i) ==
    IF i <= Len(s) /\ IsSpace(s[i]) THEN SkipSpaces(s, i + 1) ELSE i

\* last position of the run of word atoms that starts at i (i - 1 if none)
RECURSIVE WordRunEnd(_, _)
WordRunEnd(s, i) ==
    IF i <= Len(s) /\ IsWord(s[i]) THEN WordRunEnd(s, i + 1) ELSE i - 1

(***************************************************************************)
(* re.sub(r"'(?:[^']|'')*'", "", text): literal stripping                  *)
(***************************************************************************)
\* The greedy body consumes non-quotes and quote pairs from j on; p is the
\* first quote of the last pair consumed.  The match ends at the first
\* unpaired quote; if the text ends first the regex backtracks to the last
\* pair and closes on its first quote (0: no match).
RECURSIVE LiteralEnd(_, _, _)
LiteralEnd(s, j, p) ==
    IF j > Len(s) THEN p
    ELSE IF s[j] # QUOTE THEN LiteralEnd(s, j + 1, p)
    ELSE IF j + 1 <= Len(s) /\ s[j + 1] = QUOTE THEN LiteralEnd(s, j + 2, j)
    ELSE j

\* r"'.*'" in place of the literal pattern: everything from the first quote
\* to the last one goes
StripLiteralsGreedy(s) ==
    LET quotes == {i \in 1..Len(s) : s[i] = QUOTE}
        first == CHOOSE i \in quotes : \A j \in quotes : i <= j
        last == CHOOSE i \in quotes : \A j \in quotes : j <= i
    IN  IF Cardinality(quotes) < 2 THEN s
        ELSE SubSeq(s, 1, first - 1) \o SubSeq(s, last + 1, Len(s))

RECURSIVE StripLiteralsFrom(_, _)
StripLiteralsFrom(s, i) ==
    IF i > Len(s) THEN <<>>
    ELSE IF s[i] = QUOTE /\ LiteralEnd(s, i + 1, 0) # 0
         THEN StripLiteralsFrom(s, LiteralEnd(s, i + 1, 0) + 1)
         ELSE <<s[i]>> \o StripLiteralsFrom(s, i + 1)

StripLiterals(s) == StripLiteralsFrom(s, 1)

(***************************************************************************)
(* RAGEngine._validate_sql                                                 *)
(***************************************************************************)
None == "None"

MAX_RESULT_ROWS == 100

ALLOWED_TABLE == "cyber_attacks"

dangerous_patterns ==
    {"DROP", "DELETE", "INSERT", "UPDATE", "ALTER", "TRUNCATE", "EXEC",
     "EXECUTE", "CREATE", "GRANT", "REVOKE", "COPY", "LOAD"}

blind_sqli_patterns ==
    {"pg_sleep", "sleep", "benchmark", "waitfor", "delay", "dblink",
     "lo_import", "lo_export"}

system_patterns ==
    {"information_schema", "pg_catalog", "pg_tables", "pg_proc", "pg_shadow",
     "pg_roles", "pg_user", "pg_stat", "pg_settings", "pg_database",
     "pg_authid"}

\* The catalog name fragments that occur in an atom's text, compared without
\* regard to case.  A fragment is made of word characters only and no two
\* atoms of the model join into one, so a fragment never spans atoms.
FragmentsOf(a) ==
    CASE Lower(a) = "pg_class" -> {"pg_class"}
      [] Lower(a) = "pg_tables" -> {"pg_tables"}
      [] Lower(a) = "pg_stat_activity" -> {"pg_stat"}
      [] Lower(a) = "pg_namespace" -> {"pg_namespace"}
      [] Lower(a) = "information_schema" -> {"information_schema"}
      [] OTHER -> {}

\* sql_upper.startswith("SELECT"): the text begins with an atom that begins
\* with SELECT; SELECT and select are the only such atoms
StartsWithSelect(s) == s # <<>> /\ Upper(s[1]) = "SELECT"

\* re.search(pattern, text) for some pattern \bKW\b of the list
SearchAnyWord(s, kws) ==
    \E i \in 1..Len(s) :
        s[i] \in kws /\ BoundaryBefore(s, i) /\ BoundaryAfter(s, i)

\* the same with re.IGNORECASE, for patterns written in lower case
SearchAnyWordIgnoreCase(s, kws) ==
    \E i \in 1..Len(s) :
        Lower(s[i]) \in kws /\ BoundaryBefore(s, i) /\ BoundaryAfter(s, i)

\* re.search(fragment, text, re.IGNORECASE) for some fragment of the list
SearchAnyFragment(s, frags) ==
    \E i \in 1..Len(s) : FragmentsOf(s[i]) \cap frags # {}

\* re.search(r'\bFROM\s*\(', text, re.IGNORECASE)
SearchFromParen(s) ==
    \E i \in 1..Len(s) :
        /\ Lower(s[i]) = "from"
        /\ BoundaryBefore(s, i)
        /\ SkipSpaces(s, i + 1) <= Len(s)
        /\ s[SkipSpaces(s, i + 1)] = "("

\* re.findall(r'\bKW\s+(\w+)', text, re.IGNORECASE): the positions of the
\* keyword atoms at which the pattern matches.  findall returns matches
\* that do not overlap; a match it skips starts on the captured word of the
\* match before it, and that word is then the keyword itself, not the
\* allowlisted table, so the accept / reject outcome is that of all matches.
TableMatches(s, kw) ==
    {i \in 1..Len(s) :
        /\ Lower(s[i]) = kw
        /\ BoundaryBefore(s, i)
        /\ i + 1 <= Len(s)
        /\ IsSpace(s[i + 1])
        /\ WordRunEnd(s, SkipSpaces(s, i + 1)) >= SkipSpaces(s, i + 1)}

\* the captured (\w+) of the match at keyword position i
CapturedTable(s, i) ==
    SubSeq(s, SkipSpaces(s, i + 1), WordRunEnd(s, SkipSpaces(s, i + 1)))

\* table != "cyber_attacks": the comparison without lower()
IsAllowedTableExact(w) == Len(w) = 1 /\ w[1] = ALLOWED_TABLE

\* table.lower() != "cyber_attacks": the captured word is one atom that
\* lower-cases to the allowlisted name (no two atoms join into that name)
IsAllowedTable(w) == Len(w) = 1 /\ Lower(w[1]) = ALLOWED_TABLE

ForeignTableReferenced(s) ==
    \E i \in TableMatches(s, "from") \cup TableMatches(s, "join") :
        ~IsAllowedTable(CapturedTable(s, i))

R_NOT_SELECT == "Only SELECT queries are allowed"
R_MULTI == "Multiple SQL statements are not allowed"
R_DISALLOWED_OP == "Query contains disallowed operation"
R_COMMENT == "SQL comments are not allowed"
R_FUNCTION == "Query contains a disallowed function"
R_SYSTEM == "Access to system tables is not allowed"
R_SUBQUERY == "Subqueries in FROM clause are not allowed"
R_UNION == "UNION queries are not allowed"
R_TABLE == "Only the 'cyber_attacks' table can be queried"

\* the checks with the UNION check moved ahead of the comment check
_validate_sql_union_first(sql) ==
    LET sql_clean == Strip(sql)
        sql_upper == UpperSeq(sql_clean)
        sql_no_strings == StripLiterals(sql_clean)
        sql_no_strings_upper == UpperSeq(sql_no_strings)
    IN  IF ~StartsWithSelect(sql_clean) THEN R_NOT_SELECT
        ELSE IF Contains(sql_no_strings, ";") THEN R_MULTI
        ELSE IF SearchAnyWord(sql_no_strings_upper, dangerous_patterns)
             THEN R_DISALLOWED_OP
        ELSE IF SearchAnyWord(sql_no_strings_upper, {"UNION"}) THEN R_UNION
        ELSE IF \/ ContainsPair(sql_no_strings, "-", "-")
                \/ ContainsPair(sql_no_strings, "/", "*")
             THEN R_COMMENT
        ELSE IF SearchAnyWordIgnoreCase(sql_clean, blind_sqli_patterns)
             THEN R_FUNCTION
        ELSE IF SearchAnyFragment(sql_clean, system_patterns) THEN R_SYSTEM
        ELSE IF SearchFromParen(sql_no_strings) THEN R_SUBQUERY
        ELSE IF ForeignTableReferenced(sql_no_strings) THEN R_TABLE
        ELSE None

\* the checks with the function names searched in the literal-stripped text
_validate_sql_functions_stripped(sql) ==
    LET sql_clean == Strip(sql)
        sql_upper == UpperSeq(sql_clean)
        sql_no_strings == StripLiterals(sql_clean)
        sql_no_strings_upper == UpperSeq(sql_no_strings)
    IN  IF ~StartsWithSelect(sql_clean) THEN R_NOT_SELECT
        ELSE IF Contains(sql_no_strings, ";") THEN R_MULTI
        ELSE IF SearchAnyWord(sql_no_strings_upper, dangerous_patterns)
             THEN R_DISALLOWED_OP
        ELSE IF \/ ContainsPair(sql_no_strings, "-", "-")
                \/ ContainsPair(sql_no_strings, "/", "*")
             THEN R_COMMENT
        ELSE IF SearchAnyWordIgnoreCase(sql_no_strings, blind_sqli_patterns)
             THEN R_FUNCTION
        ELSE IF SearchAnyFragment(sql_clean, system_patterns) THEN R_SYSTEM
        ELSE IF SearchFromParen(sql_no_strings) THEN R_SUBQUERY
        ELSE IF SearchAnyWord(sql_no_strings_upper, {"UNION"}) THEN R_UNION
        ELSE IF ForeignTableReferenced(sql_no_strings) THEN R_TABLE
        ELSE None

_validate_sql(sql) ==
    LET sql_clean == Strip(sql)
        sql_upper == UpperSeq(sql_clean)
        sql_no_strings == StripLiterals(sql_clean)
        sql_no_strings_upper == UpperSeq(sql_no_strings)
    IN  IF ~StartsWithSelect(sql_clean) THEN R_NOT_SELECT
        ELSE IF Contains(sql_no_strings, ";") THEN R_MULTI
        ELSE IF SearchAnyWord(sql_no_strings_upper, dangerous_patterns)
             THEN R_DISALLOWED_OP
        ELSE IF \/ ContainsPair(sql_no_strings, "-", "-")
                \/ ContainsPair(sql_no_strings, "/", "*")
             THEN R_COMMENT
        ELSE IF SearchAnyWordIgnoreCase(sql_clean, blind_sqli_patterns)
             THEN R_FUNCTION
        ELSE IF SearchAnyFragment(sql_clean, system_patterns) THEN R_SYSTEM
        ELSE IF SearchFromParen(sql_no_strings) THEN R_SUBQUERY
        ELSE IF SearchAnyWord(sql_no_strings_upper, {"UNION"}) THEN R_UNION
        ELSE IF ForeignTableReferenced(sql_no_strings) THEN R_TABLE
        ELSE None

(***************************************************************************)
(* RAGEngine._sanitize_sql                                                 *)
(***************************************************************************)
\* the replacement text of the wildcard rewrite, as atoms
RECURSIVE ColumnList(_)
ColumnList(cols) ==
    IF Len(cols) = 1 THEN <<cols[1]>>
    ELSE <<cols[1], ",", SP>> \o ColumnList(Tail(cols))

StarReplacement ==
    <<"SELECT", SP>> \o ColumnList(ReplacementColumns) \o <<SP, "FROM">>

\* r'SELECT\s+\*\s+FROM' with re.IGNORECASE matches at i and ends at the
\* value: the atom at i ends with SELECT, the atom at the end starts with
\* FROM (SELECT / FROM in either case are the only such atoms); 0: no match
StarMatchEnd(s, i) ==
    LET k == SkipSpaces(s, i + 1)
        m == SkipSpaces(s, k + 1)
    IN  IF /\ Upper(s[i]) = "SELECT"
           /\ i + 1 <= Len(s) /\ IsSpace(s[i + 1])
           /\ k <= Len(s) /\ s[k] = "*"
           /\ k + 1 <= Len(s) /\ IsSpace(s[k + 1])
           /\ m <= Len(s) /\ Upper(s[m]) = "FROM"
        THEN m
        ELSE 0

\* re.sub(r'SELECT\s+\*\s+FROM', <explicit columns>, sql, flags=re.IGNORECASE)
RECURSIVE ReplaceStarFrom(_, _)
ReplaceStarFrom(s, i) ==
    IF i > Len(s) THEN <<>>
    ELSE IF StarMatchEnd(s, i) # 0
         THEN StarReplacement \o ReplaceStarFrom(s, StarMatchEnd(s, i) + 1)
         ELSE <<s[i]>> \o ReplaceStarFrom(s, i + 1)

ReplaceStar(s) == ReplaceStarFrom(s, 1)

\* "LIMIT" in sql_upper: an upper-cased atom with the letters LIMIT in it
ContainsLimitText(s) ==
    \E i \in 1..Len(s) : Upper(s[i]) \in {"LIMIT", "RATE_LIMIT", "LIMITED"}

\* last position of the run of digit atoms that starts at i (i - 1 if none)
RECURSIVE DigitRunEnd(_, _)
DigitRunEnd(s, i) ==
    IF i <= Len(s) /\ s[i] \in DigitAtoms THEN DigitRunEnd(s, i + 1)
    ELSE i - 1

\* int() of the digits of atoms i..j written one after the other
RECURSIVE DigitRunValue(_, _, _)
DigitRunValue(s, i, j) ==
    IF i > j THEN 0
    ELSE DigitRunValue(s, i, j - 1) * Pow10Len(s[j]) + IntOf(s[j])

\* r'LIMIT\s+(\d+)' with re.IGNORECASE matches at i: the atom at i ends
\* with LIMIT (no \b in front), whitespace follows, then digits
LimitMatchAt(s, i) ==
    /\ Upper(s[i]) \in {"LIMIT", "RATE_LIMIT"}
    /\ i + 1 <= Len(s) /\ IsSpace(s[i + 1])
    /\ SkipSpaces(s, i + 1) <= Len(s)
    /\ s[SkipSpaces(s, i + 1)] \in DigitAtoms

LimitMatches(s) == {i \in 1..Len(s) : LimitMatchAt(s, i)}

\* re.search: the leftmost match
FirstLimitMatch(s) == CHOOSE i \in LimitMatches(s) : \A j \in LimitMatches(s) : i <= j

\* int(limit_match.group(1)) of the match at i
LimitValueAt(s, i) ==
    DigitRunValue(s, SkipSpaces(s, i + 1), DigitRunEnd(s, SkipSpaces(s, i + 1)))

\* str(n) of an f-string, for the row ceilings the code formats
Str(n) ==
    CASE n = 100 -> "100"
      [] n = 1000 -> "1000"
      [] n = 50 -> "50"
      [] n = 0 -> "0"

\* the atom at a match with its final LIMIT replaced by the text "LIMIT"
WithLimitUpper(a) ==
    CASE Upper(a) = "LIMIT" -> "LIMIT"
      [] a \in {"rate_limit", "rate_LIMIT"} -> "rate_LIMIT"
      [] a = "RATE_LIMIT" -> "RATE_LIMIT"

\* re.sub(r'LIMIT\s+\d+', f'LIMIT {MAX_RESULT_ROWS}', sql, flags=re.IGNORECASE)
RECURSIVE ReplaceLimitsFrom(_, _)
ReplaceLimitsFrom(s, i) ==
    IF i > Len(s) THEN <<>>
    ELSE IF LimitMatchAt(s, i)
         THEN <<WithLimitUpper(s[i]), SP, Str(MAX_RESULT_ROWS)>>
              \o ReplaceLimitsFrom(s, DigitRunEnd(s, SkipSpaces(s, i + 1)) + 1)
         ELSE <<s[i]>> \o ReplaceLimitsFrom(s, i + 1)

ReplaceLimits(s) == ReplaceLimitsFrom(s, 1)

\* the LIMIT clause appended without looking for one
_sanitize_sql_append(sql0) ==
    ReplaceStar(RStripSemicolon(Strip(sql0)))
        \o <<SP, "LIMIT", SP, Str(MAX_RESULT_ROWS)>>

_sanitize_sql(sql0) ==
    LET sql1 == RStripSemicolon(Strip(sql0))
        sql == ReplaceStar(sql1)
        sql_upper == UpperSeq(sql)
    IN  IF ~ContainsLimitText(sql_upper)
        THEN sql \o <<SP, "LIMIT", SP, Str(MAX_RESULT_ROWS)>>
        ELSE IF LimitMatches(sql) # {}
                /\ LimitValueAt(sql, FirstLimitMatch(sql)) > MAX_RESULT_ROWS
             THEN ReplaceLimits(sql)
             ELSE sql

(***************************************************************************)
(* database.execute_query_safe: the static checks in front of the database *)
(***************************************************************************)
guard_dangerous_patterns ==
    {"DROP", "DELETE", "INSERT", "UPDATE", "ALTER", "TRUNCATE", "EXEC",
     "EXECUTE", "CREATE", "GRANT", "REVOKE", "COPY", "LOAD", "IMPORT"}

system_tables ==
    {"information_schema", "pg_catalog", "pg_tables", "pg_proc", "pg_shadow",
     "pg_roles", "pg_user", "pg_stat", "pg_settings", "pg_database",
     "pg_authid", "pg_class", "pg_namespace"}

G_DISALLOWED_OP == "Query contains a disallowed operation"
G_EXEC_FAILED == "Query execution failed"

\* the error of the static checks, None when the statement goes on to
\* execute_query
GuardError(query) ==
    LET query_clean == Strip(query)
        query_no_strings == StripLiterals(query_clean)
        query_no_strings_upper == UpperSeq(query_no_strings)
    IN  IF ~StartsWithSelect(query_clean) THEN R_NOT_SELECT
        ELSE IF Contains(query_no_strings, ";") THEN R_MULTI
        ELSE IF SearchAnyWord(query_no_strings_upper, guard_dangerous_patterns)
             THEN G_DISALLOWED_OP
        ELSE IF \/ ContainsPair(query_no_strings, "-", "-")
                \/ ContainsPair(query_no_strings, "/", "*")
             THEN R_COMMENT
        ELSE IF SearchAnyWordIgnoreCase(query_clean, blind_sqli_patterns)
             THEN R_FUNCTION
        ELSE IF SearchAnyFragment(query_clean, system_tables) THEN R_SYSTEM
        ELSE IF SearchFromParen(query_no_strings) THEN R_SUBQUERY
        ELSE IF SearchAnyWord(query_no_strings_upper, {"UNION"}) THEN R_UNION
        ELSE IF ForeignTableReferenced(query_no_strings) THEN R_TABLE
        ELSE None

MAX_ROWS == 100

Min(a, b) == IF a <= b THEN a ELSE b

\* the rows execute_query returns when the statement selects n of them, each
\* written as its position in the order of the fetch
Rows(n) == [i \in 1..n |-> i]

\* results[:MAX_ROWS]
Truncate(results) == SubSeq(results, 1, Min(Len(results), MAX_ROWS))

\* the dict with the last MAX_ROWS rows instead of the first
GuardSuccessLastRows(n) ==
    LET results == Rows(n)
        kept == SubSeq(results, Len(results) - Min(Len(results), MAX_ROWS) + 1,
                       Len(results))
    IN  [success |-> TRUE, rows |-> kept, data |-> Len(kept),
         row_count |-> Len(kept), truncated |-> Len(results) > MAX_ROWS,
         error |-> None]

\* the dict execute_query_safe returns when execute_query returned n rows;
\* "data" is written as the number of rows in it, "rows" are the rows
GuardSuccess(n) ==
    LET results == Rows(n)
    IN  [success |-> TRUE, rows |-> Truncate(results),
         data |-> Len(Truncate(results)), row_count |-> Len(Truncate(results)),
         truncated |-> Len(results) > MAX_ROWS, error |-> None]

\* the dict it returns on a static rejection or a database exception
GuardFailure(err) ==
    [success |-> FALSE, rows |-> <<>>, data |-> 0, row_count |-> 0,
     truncated |-> FALSE, error |-> err]

(***************************************************************************)
(* RAGEngine._sanitize_input and _validate_input.  A question is a         *)
(* sequence of text atoms: single characters, and blocks of many           *)
(* characters of one class that stand for long words.                      *)
(***************************************************************************)
NUL == "NUL"
TAB == "\t"

\* len() of one text atom
CharLen(a) ==
    CASE a = "A999" -> 999
      [] a = "!!!!" -> 4
      [] OTHER -> 1

IsTextSpace(a) == a \in {SP, TAB}

\* c.isalnum() or c.isspace(), for the characters of one atom
IsAlnumOrSpace(a) == a \in {"a", "A999", SP, TAB}

RECURSIVE TextLen(_)
TextLen(q) == IF q = <<>> THEN 0 ELSE CharLen(Head(q)) + TextLen(Tail(q))

RECURSIVE AlnumCount(_)
AlnumCount(q) ==
    IF q = <<>> THEN 0
    ELSE (IF IsAlnumOrSpace(Head(q)) THEN CharLen(Head(q)) ELSE 0)
         + AlnumCount(Tail(q))

RECURSIVE TextLStrip(_)
TextLStrip(q) ==
    IF q # <<>> /\ IsTextSpace(Head(q)) THEN TextLStrip(Tail(q)) ELSE q

RECURSIVE TextRStrip(_)
TextRStrip(q) ==
    IF q # <<>> /\ IsTextSpace(q[Len(q)])
    THEN TextRStrip(SubSeq(q, 1, Len(q) - 1))
    ELSE q

\* query.replace("\x00", "")
RemoveNul(q) == SelectSeq(q, LAMBDA a : a # NUL)

\* re.sub(r'\s+', ' ', query)
RECURSIVE CollapseSpaces(_)
CollapseSpaces(q) ==
    IF q = <<>> THEN <<>>
    ELSE IF IsTextSpace(Head(q))
         THEN <<SP>> \o CollapseSpaces(TextLStrip(q))
         ELSE <<Head(q)>> \o CollapseSpaces(Tail(q))

_sanitize_input(query) == CollapseSpaces(RemoveNul(TextRStrip(TextLStrip(query))))

V_EMPTY == "Query cannot be empty"
V_SHORT == "Query is too short. Please ask a complete question about cyber attack data."
V_LONG == "Query is too long. Please keep your question under 1000 characters."
V_CHARS == "Query appears to contain invalid characters. Please ask a clear question about cyber attack data."

\* the checks without the one on the maximum length
_validate_input_unbounded(query) ==
    IF query = <<>> THEN V_EMPTY
    ELSE IF TextLen(query) < 3 THEN V_SHORT
    ELSE IF TextLen(query) > 5 /\ 2 * AlnumCount(query) < TextLen(query)
         THEN V_CHARS
    ELSE None

_validate_input(query) ==
    IF query = <<>> THEN V_EMPTY
    ELSE IF TextLen(query) < 3 THEN V_SHORT
    ELSE IF TextLen(query) > 1000 THEN V_LONG
    ELSE IF TextLen(query) > 5 /\ 2 * AlnumCount(query) < TextLen(query)
         THEN V_CHARS
    ELSE None

(***************************************************************************)
(* RAGEngine.process_query: one request                                    *)
(***************************************************************************)
\* bounds of the model
MaxGenTail == 2
MaxSqlTail == 4

\* every text of at most n atoms over the alphabet A
Texts(A, n) == UNION {[1..k -> A] : k \in 0..n}

\* the questions a caller sends: empty, too short, too long, mostly
\* punctuation, just long enough, as long as allowed, and one that needs
\* normalising
RawQueries ==
    {<<>>, <<"a", "a">>, <<"A999", "a", "a">>, <<"!!!!", "!", "!">>,
     <<"a", "a", "a">>, <<"A999", "a">>,
     <<SP, NUL, "a", TAB, SP, "a", "a", TAB>>}

BaseSelect == <<"SELECT", SP, "id", SP, "FROM", SP, "cyber_attacks">>

\* what the generator may put into the "sql" field: the base statement
\* followed by any short text over GenAlphabet
GenAlphabet == {SP, ",", ";", "users", "pg_class", "rate_limit"}

GenSql == {BaseSelect \o t : t \in Texts(GenAlphabet, MaxGenTail)}

\* the ways a generator call ends: _call_llm raises (connect error, timeout,
\* anything else), or the parsed response says unavailable, has no SQL, or
\* proposes a statement
LLMOutcomes ==
    {[kind |-> k, sql |-> <<>>] :
        k \in {"connect_error", "timeout", "exception", "unavailable", "no_sql"}}
    \cup {[kind |-> "sql", sql |-> s] : s \in GenSql}

\* the number of rows execute_query returns; negative: it raises, the
\* engine complaining of the syntax (-1) or of a column (-2)
DB_RAISES == -1
DB_RAISES_COLUMN == -2
DbOutcomes == {DB_RAISES_COLUMN, DB_RAISES, 0, 2, MAX_ROWS, MAX_ROWS + 1}

\* execute_query: raise Exception(f"Query execution failed: {str(e)}")
ExecuteQueryError(n) ==
    CASE n = DB_RAISES ->
            "Query execution failed: syntax error at or near \"FORM\""
      [] n = DB_RAISES_COLUMN ->
            "Query execution failed: column \"severity\" does not exist"

DATA_NONE == -1
NO_SQL == <<>>
NoParsed == [available |-> FALSE, sql |-> NO_SQL, parsed |-> FALSE]
Parsed(available, sql) == [available |-> available, sql |-> sql, parsed |-> TRUE]
NoResult == [success |-> FALSE, rows |-> <<>>, data |-> 0, row_count |-> 0,
             truncated |-> FALSE, error |-> "(not executed)"]
NoResponse == [keys |-> {}, success |-> FALSE, message |-> "(pending)",
               reason |-> <<"", "">>, error |-> "", sql |-> NO_SQL,
               data |-> DATA_NONE, row_count |-> 0, note |-> ""]

\* a returned dict: the keys it has, and their values
Failed(message, reason) ==
    [NoResponse EXCEPT !.keys = {"success", "message", "reason", "data"},
                       !.message = message, !.reason = reason]

\* Steps 3 and 4 answering with the message of an internal error
NotAvailableAsError(reason) == Failed("error", <<"", reason>>)

\* Steps 3 and 4: the generator cannot answer, or gave no SQL
NotAvailable(reason) == Failed("not available", <<"", reason>>)

ErrorResponse(text) ==
    [NoResponse EXCEPT !.keys = {"success", "message", "error", "data"},
                       !.message = "error", !.error = text]

E_CONNECT == "Cannot connect to Ollama. Make sure Ollama is running (ollama serve)."
E_TIMEOUT == "LLM request timed out. Please try a simpler question."
E_INTERNAL == "An internal error occurred while processing your query."
BLOCKED_PREFIX == "Generated query was blocked for safety: "
NO_SQL_REASON == "No SQL query generated. Please rephrase your question."
NOTE_NO_RESULTS == "The query executed successfully but returned no matching records. Try broadening your search criteria (e.g., wider date range, different filters)."

FnIdle == /\ fn_in = <<>> /\ fn_out = <<>> /\ fn_pc = "idle"

\* no pool yet (the module was just loaded) and no coroutine in execute_query
NO_POOL == 0
PoolIdle == /\ _pool = NO_POOL /\ pools = <<>> /\ tasks = <<>>

Init ==
    /\ pc = "start"
    /\ raw_query \in RawQueries
    /\ clean_query = <<>>
    /\ parsed_response = NoParsed
    /\ sql_query = NO_SQL
    /\ retried_sql = NO_SQL
    /\ query_result = NoResult
    /\ response = NoResponse
    /\ llm_calls = 0
    /\ llm_log = <<>>
    /\ safe_calls = <<>>
    /\ db_log = <<>>
    /\ db_raised = <<>>
    /\ db_fetched = <<>>
    /\ FnIdle
    /\ PoolIdle

\* Step 1 with the validation applied to the text as the caller sent it
ValidateInputRaw ==
    /\ pc = "start"
    /\ clean_query' = _sanitize_input(raw_query)
    /\ IF _validate_input(raw_query) # None
       THEN /\ response' = Failed("invalid_query", <<"", _validate_input(raw_query)>>)
            /\ pc' = "done"
       ELSE /\ response' = response
            /\ pc' = "call_llm"
    /\ UNCHANGED <<raw_query, parsed_response, sql_query, retried_sql,
                   query_result, llm_calls, llm_log, safe_calls, db_log,
                   db_raised, db_fetched, fn_in, fn_out, fn_pc, PoolVars>>

\* Step 1: sanitize and validate input
ValidateInput ==
    /\ pc = "start"
    /\ clean_query' = _sanitize_input(raw_query)
    /\ IF _validate_input(clean_query') # None
       THEN /\ response' = Failed("invalid_query", <<"", _validate_input(clean_query')>>)
            /\ pc' = "done"
       ELSE /\ response' = response
            /\ pc' = "call_llm"
    /\ UNCHANGED <<raw_query, parsed_response, sql_query, retried_sql,
                   query_result, llm_calls, llm_log, safe_calls, db_log, db_raised, db_fetched, fn_in, fn_out,
                   fn_pc, PoolVars>>

\* Steps 2 to 6 without Step 5: the statement is not validated
CallLLMWithoutValidation ==
    /\ pc = "call_llm"
    /\ llm_calls' = llm_calls + 1
    /\ \E out \in LLMOutcomes :
      /\ llm_log' = Append(llm_log, out.kind)
      /\
        CASE out.kind = "connect_error" ->
                /\ response' = ErrorResponse(E_CONNECT)
                /\ pc' = "done"
                /\ UNCHANGED <<parsed_response, sql_query>>
          [] out.kind = "timeout" ->
                /\ response' = ErrorResponse(E_TIMEOUT)
                /\ pc' = "done"
                /\ UNCHANGED <<parsed_response, sql_query>>
          [] out.kind = "exception" ->
                /\ response' = ErrorResponse(E_INTERNAL)
                /\ pc' = "done"
                /\ UNCHANGED <<parsed_response, sql_query>>
          [] out.kind = "unavailable" ->
                /\ parsed_response' = Parsed(FALSE, NO_SQL)
                /\ response' = NotAvailable("(generator's reason)")
                /\ pc' = "done"
                /\ UNCHANGED sql_query
          [] out.kind = "no_sql" ->
                /\ parsed_response' = Parsed(TRUE, NO_SQL)
                /\ response' = NotAvailable(NO_SQL_REASON)
                /\ pc' = "done"
                /\ UNCHANGED sql_query
          [] out.kind = "sql" ->
                /\ parsed_response' = Parsed(TRUE, out.sql)
                /\ response' = response
                /\ pc' = "execute"
                /\ sql_query' = _sanitize_sql(out.sql)
    /\ UNCHANGED <<raw_query, clean_query, retried_sql, query_result,
                   safe_calls, db_log, db_raised, db_fetched, fn_in, fn_out, fn_pc, PoolVars>>

\* Steps 2 to 6: call the generator, parse, check availability, validate and
\* sanitize the SQL (with the except clauses of the end of process_query)
CallLLM ==
    /\ pc = "call_llm"
    /\ llm_calls' = llm_calls + 1
    /\ \E out \in LLMOutcomes :
      /\ llm_log' = Append(llm_log, out.kind)
      /\
        CASE out.kind = "connect_error" ->
                /\ response' = ErrorResponse(E_CONNECT)
                /\ pc' = "done"
                /\ UNCHANGED <<parsed_response, sql_query>>
          [] out.kind = "timeout" ->
                /\ response' = ErrorResponse(E_TIMEOUT)
                /\ pc' = "done"
                /\ UNCHANGED <<parsed_response, sql_query>>
          [] out.kind = "exception" ->
                /\ response' = ErrorResponse(E_INTERNAL)
                /\ pc' = "done"
                /\ UNCHANGED <<parsed_response, sql_query>>
          [] out.kind = "unavailable" ->
                /\ parsed_response' = Parsed(FALSE, NO_SQL)
                /\ response' = NotAvailable("(generator's reason)")
                /\ pc' = "done"
                /\ UNCHANGED sql_query
          [] out.kind = "no_sql" ->
                /\ parsed_response' = Parsed(TRUE, NO_SQL)
                /\ response' = NotAvailable(NO_SQL_REASON)
                /\ pc' = "done"
                /\ UNCHANGED sql_query
          [] out.kind = "sql" ->
                /\ parsed_response' = Parsed(TRUE, out.sql)
                /\ IF _validate_sql(out.sql) # None
                   THEN /\ response' = Failed("query_blocked",
                                          <<BLOCKED_PREFIX, _validate_sql(out.sql)>>)
                        /\ pc' = "done"
                        /\ sql_query' = out.sql
                   ELSE /\ response' = response
                        /\ pc' = "execute"
                        /\ sql_query' = _sanitize_sql(out.sql)
    /\ UNCHANGED <<raw_query, clean_query, retried_sql, query_result,
                   safe_calls, db_log, db_raised, db_fetched, fn_in, fn_out, fn_pc, PoolVars>>

\* execute_query_safe with "error": str(e) in its except clause
execute_query_safe_echo(query, n) ==
    IF GuardError(query) # None THEN GuardFailure(GuardError(query))
    ELSE IF n \in {DB_RAISES, DB_RAISES_COLUMN}
    THEN GuardFailure(ExecuteQueryError(n))
    ELSE GuardSuccess(n)

\* execute_query_safe(query) when execute_query, if it is reached, returns
\* n rows (DB_RAISES: raises)
execute_query_safe(query, n) ==
    IF GuardError(query) # None THEN GuardFailure(GuardError(query))
    ELSE IF n \in {DB_RAISES, DB_RAISES_COLUMN} THEN GuardFailure(G_EXEC_FAILED)
    ELSE GuardSuccess(n)

\* the exception execute_query raises inside execute_query_safe, if any
DbRaised(query, n) ==
    IF GuardError(query) = None /\ n \in {DB_RAISES, DB_RAISES_COLUMN}
    THEN <<ExecuteQueryError(n)>>
    ELSE <<>>

\* the rows execute_query returned inside execute_query_safe, if it did
DbFetched(query, n) ==
    IF GuardError(query) = None /\ n \notin {DB_RAISES, DB_RAISES_COLUMN}
    THEN <<Rows(n)>>
    ELSE <<>>

\* the statement execute_query_safe hands to execute_query, if it does
DbCalls(query) == IF GuardError(query) = None THEN <<Strip(query)>> ELSE <<>>

\* Step 7: execute the query
Execute ==
    /\ pc = "execute"
    /\ safe_calls' = Append(safe_calls, sql_query)
    /\ db_log' = db_log \o DbCalls(sql_query)
    /\ \E n \in DbOutcomes :
        /\ query_result' = execute_query_safe(sql_query, n)
        /\ db_raised' = db_raised \o DbRaised(sql_query, n)
        /\ db_fetched' = db_fetched \o DbFetched(sql_query, n)
        /\ pc' = IF query_result'.success THEN "respond" ELSE "retry_llm"
    /\ UNCHANGED <<raw_query, clean_query, parsed_response, sql_query,
                   retried_sql, response, llm_calls, llm_log, fn_in, fn_out, fn_pc, PoolVars>>

\* Step 8 with a _retry_llm_with_error that lets a connect error or a
\* timeout through to the except clauses of process_query
RetryLLMRaises ==
    /\ pc = "retry_llm"
    /\ llm_calls' = llm_calls + 1
    /\ \E out \in LLMOutcomes :
      /\ llm_log' = Append(llm_log, out.kind)
      /\
        IF out.kind \in {"connect_error", "timeout"}
        THEN /\ retried_sql' = NO_SQL
             /\ response' = ErrorResponse(IF out.kind = "timeout" THEN E_TIMEOUT
                                                                ELSE E_CONNECT)
             /\ pc' = "done"
        ELSE IF out.kind # "sql"
        THEN /\ retried_sql' = NO_SQL
             /\ response' = response
             /\ pc' = "respond"
        ELSE IF _validate_sql(out.sql) # None
             THEN /\ retried_sql' = out.sql
                  /\ response' = response
                  /\ pc' = "respond"
             ELSE /\ retried_sql' = _sanitize_sql(out.sql)
                  /\ response' = response
                  /\ pc' = "execute_retry"
    /\ UNCHANGED <<raw_query, clean_query, parsed_response, sql_query,
                   query_result, safe_calls, db_log, db_raised, db_fetched, fn_in, fn_out, fn_pc, PoolVars>>

\* Step 8 without line 354: the retried statement is not validated
RetryLLMWithoutValidation ==
    /\ pc = "retry_llm"
    /\ llm_calls' = llm_calls + 1
    /\ \E out \in LLMOutcomes :
      /\ llm_log' = Append(llm_log, out.kind)
      /\
        IF out.kind # "sql"
        THEN /\ retried_sql' = NO_SQL
             /\ pc' = "respond"
        ELSE /\ retried_sql' = _sanitize_sql(out.sql)
             /\ pc' = "execute_retry"
    /\ UNCHANGED <<raw_query, clean_query, parsed_response, sql_query,
                   query_result, response, safe_calls, db_log, db_raised, db_fetched,
                   fn_in, fn_out, fn_pc, PoolVars>>

\* Step 8, first half: _retry_llm_with_error and the validation of its SQL
RetryLLM ==
    /\ pc = "retry_llm"
    /\ llm_calls' = llm_calls + 1
    /\ \E out \in LLMOutcomes :
      /\ llm_log' = Append(llm_log, out.kind)
      /\
        IF out.kind # "sql"
        THEN /\ retried_sql' = NO_SQL
             /\ pc' = "respond"
        ELSE IF _validate_sql(out.sql) # None
             THEN /\ retried_sql' = out.sql
                  /\ pc' = "respond"
             ELSE /\ retried_sql' = _sanitize_sql(out.sql)
                  /\ pc' = "execute_retry"
    /\ UNCHANGED <<raw_query, clean_query, parsed_response, sql_query,
                   query_result, response, safe_calls, db_log, db_raised, db_fetched, fn_in, fn_out,
                   fn_pc, PoolVars>>

\* Step 8 as a loop: a failed retry asks the generator again
ExecuteRetryAgain ==
    /\ pc = "execute_retry"
    /\ safe_calls' = Append(safe_calls, retried_sql)
    /\ db_log' = db_log \o DbCalls(retried_sql)
    /\ \E n \in DbOutcomes :
        /\ query_result' = execute_query_safe(retried_sql, n)
        /\ db_raised' = db_raised \o DbRaised(retried_sql, n)
        /\ db_fetched' = db_fetched \o DbFetched(retried_sql, n)
        /\ sql_query' = IF query_result'.success THEN retried_sql ELSE sql_query
        /\ pc' = IF query_result'.success THEN "respond" ELSE "retry_llm"
    /\ UNCHANGED <<raw_query, clean_query, parsed_response, retried_sql,
                   response, llm_calls, llm_log, fn_in, fn_out, fn_pc, PoolVars>>

\* Step 8 without line 360: the retried statement is not recorded
ExecuteRetryKeepsSql ==
    /\ pc = "execute_retry"
    /\ safe_calls' = Append(safe_calls, retried_sql)
    /\ db_log' = db_log \o DbCalls(retried_sql)
    /\ \E n \in DbOutcomes :
        /\ query_result' = execute_query_safe(retried_sql, n)
        /\ db_raised' = db_raised \o DbRaised(retried_sql, n)
        /\ db_fetched' = db_fetched \o DbFetched(retried_sql, n)
    /\ pc' = "respond"
    /\ UNCHANGED <<raw_query, clean_query, parsed_response, sql_query,
                   retried_sql, response, llm_calls, llm_log, fn_in, fn_out, fn_pc, PoolVars>>

\* Step 8, second half: execute the retried statement
ExecuteRetry ==
    /\ pc = "execute_retry"
    /\ safe_calls' = Append(safe_calls, retried_sql)
    /\ db_log' = db_log \o DbCalls(retried_sql)
    /\ \E n \in DbOutcomes :
        /\ query_result' = execute_query_safe(retried_sql, n)
        /\ db_raised' = db_raised \o DbRaised(retried_sql, n)
        /\ db_fetched' = db_fetched \o DbFetched(retried_sql, n)
        /\ sql_query' = IF query_result'.success THEN retried_sql ELSE sql_query
    /\ pc' = "respond"
    /\ UNCHANGED <<raw_query, clean_query, parsed_response, retried_sql,
                   response, llm_calls, llm_log, fn_in, fn_out, fn_pc, PoolVars>>

\* the returned dict without Step 9: an empty result is an ordinary success
RespondWithoutEmptyCase ==
    /\ pc = "respond"
    /\ response' =
         IF ~query_result.success
         THEN [NoResponse EXCEPT
                 !.keys = {"success", "message", "error", "sql", "data"},
                 !.message = "query_error", !.error = query_result.error,
                 !.sql = sql_query]
         ELSE [NoResponse EXCEPT
                 !.keys = {"success", "message", "sql", "explanation", "data",
                           "row_count"},
                 !.success = TRUE, !.message = "success", !.sql = sql_query,
                 !.data = query_result.data,
                 !.row_count = query_result.row_count]
    /\ pc' = "done"
    /\ UNCHANGED <<raw_query, clean_query, parsed_response, sql_query,
                   retried_sql, query_result, llm_calls, llm_log, safe_calls, db_log, db_raised, db_fetched,
                   fn_in, fn_out, fn_pc, PoolVars>>

\* the end of Step 8, Steps 9 and 10: the returned dict
Respond ==
    /\ pc = "respond"
    /\ response' =
         IF ~query_result.success
         THEN [NoResponse EXCEPT
                 !.keys = {"success", "message", "error", "sql", "data"},
                 !.message = "query_error", !.error = query_result.error,
                 !.sql = sql_query]
         ELSE IF query_result.row_count = 0
         THEN [NoResponse EXCEPT
                 !.keys = {"success", "message", "sql", "explanation", "data",
                           "row_count", "note"},
                 !.success = TRUE, !.message = "no_results", !.sql = sql_query,
                 !.data = 0, !.row_count = 0, !.note = NOTE_NO_RESULTS]
         ELSE [NoResponse EXCEPT
                 !.keys = {"success", "message", "sql", "explanation", "data",
                           "row_count"},
                 !.success = TRUE, !.message = "success", !.sql = sql_query,
                 !.data = query_result.data,
                 !.row_count = query_result.row_count]
    /\ pc' = "done"
    /\ UNCHANGED <<raw_query, clean_query, parsed_response, sql_query,
                   retried_sql, query_result, llm_calls, llm_log, safe_calls, db_log, db_raised, db_fetched,
                   fn_in, fn_out, fn_pc, PoolVars>>

Next == ValidateInput \/ CallLLM \/ Execute \/ RetryLLM \/ ExecuteRetry \/ Respond

Spec == Init /\ [][Next]_vars

(***************************************************************************)
(* _validate_sql and _sanitize_sql on their own.  The generator's text is  *)
(* a fixed beginning followed by up to MaxSqlTail atoms, each any atom of  *)
(* the alphabet that goes with the beginning.                              *)
(***************************************************************************)
LiteralSelect ==
    BaseSelect \o <<SP, "WHERE", SP, "attack_type", SP, "=", SP,
                    QUOTE, "LIMIT", SP, "50", QUOTE>>

\* the wildcard select, in upper case and in lower case with wider spacing
WildcardSelect == <<"SELECT", SP, "*", SP, "FROM", SP, "cyber_attacks">>
WildcardSelectLower ==
    <<"select", SP, SP, "*", SP, SP, "from", SP, "cyber_attacks">>

\* the same with a count above the ceiling in the literal
LiteralSelectBig ==
    BaseSelect \o <<SP, "WHERE", SP, "attack_type", SP, "=", SP,
                    QUOTE, "LIMIT", SP, "1000", QUOTE>>

SqlFamilies ==
    {"any", "keywords", "tables", "limits", "literal_limit", "wildcard",
     "wildcard_lower", "functions", "literal_limit_big"}

SqlHead(f) ==
    CASE f = "any" -> <<>>
      [] f = "keywords" -> BaseSelect
      [] f = "tables" -> BaseSelect
      [] f = "limits" -> BaseSelect
      [] f = "literal_limit" -> LiteralSelect
      [] f = "wildcard" -> WildcardSelect
      [] f = "wildcard_lower" -> WildcardSelectLower
      [] f = "functions" -> BaseSelect
      [] f = "literal_limit_big" -> LiteralSelectBig

SqlAlphabet(f) ==
    CASE f = "any" -> {SP, QUOTE, ";", "DROP", "SELECT"}
      [] f = "keywords" -> {SP, QUOTE, ";", "DROP", "id"}
      [] f = "tables" ->
            {SP, ",", "\"", ".", "JOIN", "users", "CYBER_ATTACKS", "pg_class",
             "pg_tables"}
      [] f = "limits" ->
            {SP, QUOTE, ",", "LIMIT", "rate_limit", "0", "50", "100", "1000"}
      [] f \in {"literal_limit", "literal_limit_big"} -> {SP, "LIMIT", "50", "1000"}
      [] f \in {"wildcard", "wildcard_lower"} -> {SP, "LIMIT", "50"}
      [] f = "functions" ->
            {SP, QUOTE, "-", "(", "FROM", "UNION", "pg_sleep", "PG_SLEEP"}

NoFnResult == [reason |-> "(pending)", once |-> <<>>, twice |-> <<>>]

RequestIdle ==
    /\ pc = "idle"
    /\ raw_query = <<>>
    /\ clean_query = <<>>
    /\ parsed_response = NoParsed
    /\ sql_query = NO_SQL
    /\ retried_sql = NO_SQL
    /\ query_result = NoResult
    /\ response = NoResponse
    /\ llm_calls = 0
    /\ llm_log = <<>>
    /\ safe_calls = <<>>
    /\ db_log = <<>>
    /\ db_raised = <<>>
    /\ db_fetched = <<>>

RequestVars == <<pc, raw_query, clean_query, parsed_response, sql_query, retried_sql,
                 query_result, response, llm_calls, llm_log, safe_calls, db_log, db_raised, db_fetched>>

InitSql ==
    /\ RequestIdle
    /\ fn_in \in {[family |-> f, text |-> SqlHead(f)] : f \in SqlFamilies}
    /\ fn_out = NoFnResult
    /\ fn_pc = "input"
    /\ PoolIdle

\* the generator writes one more atom of its statement
EmitSql ==
    /\ fn_pc = "input"
    /\ Len(fn_in.text) < Len(SqlHead(fn_in.family)) + MaxSqlTail
    /\ \E a \in SqlAlphabet(fn_in.family) :
         fn_in' = [fn_in EXCEPT !.text = Append(@, a)]
    /\ UNCHANGED <<RequestVars, fn_out, fn_pc, PoolVars>>

\* sql_error = self._validate_sql(sql)
ValidateSql ==
    /\ fn_pc = "input"
    /\ fn_out' = [fn_out EXCEPT !.reason = _validate_sql(fn_in.text)]
    /\ fn_pc' = "validated"
    /\ UNCHANGED <<RequestVars, fn_in, PoolVars>>

\* sql = self._sanitize_sql(sql), applied only to an accepted statement
SanitizeSql ==
    /\ fn_pc = "validated"
    /\ fn_out.reason = None
    /\ fn_out' = [fn_out EXCEPT !.once = _sanitize_sql(fn_in.text)]
    /\ fn_pc' = "sanitized"
    /\ UNCHANGED <<RequestVars, fn_in, PoolVars>>

\* _sanitize_sql applied to its own output
SanitizeSqlAgain ==
    /\ fn_pc = "sanitized"
    /\ fn_out' = [fn_out EXCEPT !.twice = _sanitize_sql(fn_out.once)]
    /\ fn_pc' = "resanitized"
    /\ UNCHANGED <<RequestVars, fn_in, PoolVars>>

NextSql == EmitSql \/ ValidateSql \/ SanitizeSql \/ SanitizeSqlAgain

SpecSql == InitSql /\ [][NextSql]_vars

(***************************************************************************)
(* Step 1 of process_query on its own.  The caller's question is any text  *)
(* of up to MaxTextLen atoms: spaces, tabs, NUL bytes, letters,            *)
(* punctuation, and the blocks that stand for long runs of either.         *)
(***************************************************************************)
MaxTextLen == 5

TextAlphabet == {SP, TAB, NUL, "a", "!", "A999", "!!!!"}

InitInput ==
    /\ pc = "start"
    /\ raw_query = <<>>
    /\ clean_query = <<>>
    /\ parsed_response = NoParsed
    /\ sql_query = NO_SQL
    /\ retried_sql = NO_SQL
    /\ query_result = NoResult
    /\ response = NoResponse
    /\ llm_calls = 0
    /\ llm_log = <<>>
    /\ safe_calls = <<>>
    /\ db_log = <<>>
    /\ db_raised = <<>>
    /\ db_fetched = <<>>
    /\ fn_in = <<>>
    /\ fn_out = <<>>
    /\ fn_pc = "text"
    /\ PoolIdle

\* the caller writes one more atom of the question
EmitText ==
    /\ pc = "start"
    /\ fn_pc = "text"
    /\ Len(raw_query) < MaxTextLen
    /\ \E a \in TextAlphabet : raw_query' = Append(raw_query, a)
    /\ UNCHANGED <<pc, clean_query, parsed_response, sql_query, retried_sql,
                   query_result, response, llm_calls, llm_log, safe_calls,
                   db_log, db_raised, db_fetched, fn_in, fn_out, fn_pc, PoolVars>>

NextInput == EmitText \/ ValidateInput

SpecInput == InitInput /\ [][NextInput]_vars

(***************************************************************************)
(* database.py: init_pool, get_pool, get_connection and execute_query, run *)
(* by NumTasks coroutines of one event loop.  A step is the code between   *)
(* two awaits that suspend.                                                *)
(***************************************************************************)
NumTasks == 2

POOL_MAX_SIZE == 10

\* a coroutine that has just called execute_query: where it is, its local
\* pool, whether it holds a connection, the transaction it is in, the
\* transaction the statement ran in, and how the call ended
NewTask ==
    [pc |-> "call", pool |-> NO_POOL, conn |-> FALSE, txn |-> "none",
     ran_in |-> "never", outcome |-> "pending"]

GatewayVars == <<RequestVars, fn_in, fn_out, fn_pc>>

\* the coroutines start either before any pool exists or after the
\* application's startup has awaited init_pool
InitPool ==
    /\ RequestIdle
    /\ FnIdle
    /\ tasks = [t \in 1..NumTasks |-> NewTask]
    /\ \/ _pool = NO_POOL /\ pools = <<>>
       \/ _pool = 1 /\ pools = <<0>>

\* get_connection: pool = await get_pool(), as far as the first await that
\* suspends: with a pool, get_pool returns it; without, get_pool calls
\* init_pool, which tests _pool again and awaits create_pool
GetPool ==
    \E t \in DOMAIN tasks :
        /\ tasks[t].pc = "call"
        /\ IF _pool = NO_POOL
           THEN tasks' = [tasks EXCEPT ![t].pc = "create_pool"]
           ELSE tasks' = [tasks EXCEPT ![t].pc = "acquire", ![t].pool = _pool]
        /\ UNCHANGED <<_pool, pools, GatewayVars>>

\* init_pool: create_pool returns, _pool is assigned, and get_pool returns
\* _pool; or create_pool raises, and so does execute_query
CreatePool ==
    \E t \in DOMAIN tasks :
        /\ tasks[t].pc = "create_pool"
        /\ \/ /\ pools' = Append(pools, 0)
              /\ _pool' = Len(pools) + 1
              /\ tasks' = [tasks EXCEPT ![t].pc = "acquire",
                                        ![t].pool = Len(pools) + 1]
           \/ /\ tasks' = [tasks EXCEPT ![t].pc = "done", ![t].outcome = "raised"]
              /\ UNCHANGED <<_pool, pools>>
        /\ UNCHANGED GatewayVars

\* async with pool.acquire() as connection: waits for a free connection
Acquire ==
    \E t \in DOMAIN tasks :
        /\ tasks[t].pc = "acquire"
        /\ pools[tasks[t].pool] < POOL_MAX_SIZE
        /\ pools' = [pools EXCEPT ![tasks[t].pool] = @ + 1]
        /\ tasks' = [tasks EXCEPT ![t].pc = "begin", ![t].conn = TRUE]
        /\ UNCHANGED <<_pool, GatewayVars>>

\* execute_query whose except clause returns without leaving get_connection
BeginTransactionLeaks ==
    \E t \in DOMAIN tasks :
        /\ tasks[t].pc = "begin"
        /\ \/ tasks' = [tasks EXCEPT ![t].pc = "fetch", ![t].txn = "readonly"]
           \/ tasks' = [tasks EXCEPT ![t].pc = "done", ![t].outcome = "raised"]
        /\ UNCHANGED <<_pool, pools, GatewayVars>>

\* async with conn.transaction(readonly=True): the transaction opens, or
\* opening it raises and the except clause raises on
BeginTransaction ==
    \E t \in DOMAIN tasks :
        /\ tasks[t].pc = "begin"
        /\ \/ tasks' = [tasks EXCEPT ![t].pc = "fetch", ![t].txn = "readonly"]
           \/ tasks' = [tasks EXCEPT ![t].pc = "release", ![t].outcome = "raised"]
        /\ UNCHANGED <<_pool, pools, GatewayVars>>

\* rows = await conn.fetch(query): returns the rows, or raises
Fetch ==
    \E t \in DOMAIN tasks :
        /\ tasks[t].pc = "fetch"
        /\ \E result \in {"rows", "raised"} :
              tasks' = [tasks EXCEPT ![t].pc = "end_transaction",
                                     ![t].ran_in = tasks[t].txn,
                                     ![t].outcome = result]
        /\ UNCHANGED <<_pool, pools, GatewayVars>>

\* leaving conn.transaction: commit after the return, rollback after an
\* exception, which the except clause then raises on
EndTransaction ==
    \E t \in DOMAIN tasks :
        /\ tasks[t].pc = "end_transaction"
        /\ tasks' = [tasks EXCEPT ![t].pc = "release", ![t].txn = "none"]
        /\ UNCHANGED <<_pool, pools, GatewayVars>>

\* leaving pool.acquire() and get_connection: the connection goes back
Release ==
    \E t \in DOMAIN tasks :
        /\ tasks[t].pc = "release"
        /\ pools' = [pools EXCEPT ![tasks[t].pool] = @ - 1]
        /\ tasks' = [tasks EXCEPT ![t].pc = "done", ![t].conn = FALSE]
        /\ UNCHANGED <<_pool, GatewayVars>>

NextPool ==
    \/ GetPool \/ CreatePool \/ Acquire \/ BeginTransaction \/ Fetch
    \/ EndTransaction \/ Release

SpecPool == InitPool /\ [][NextPool]_vars

(***************************************************************************)
(* Properties of _validate_sql and _sanitize_sql (SpecSql)                 *)
(***************************************************************************)
\* SQL's own reading of single quotes, position by position: "lit" inside a
\* literal that is closed (its quotes included, '' inside it an escaped
\* quote), "open" from a quote that is never closed to the end of the text,
\* "out" elsewhere
RECURSIVE ClosingQuote(_, _)
ClosingQuote(s, j) ==
    IF j > Len(s) THEN 0
    ELSE IF s[j] # QUOTE THEN ClosingQuote(s, j + 1)
    ELSE IF j + 1 <= Len(s) /\ s[j + 1] = QUOTE THEN ClosingQuote(s, j + 2)
    ELSE j

RECURSIVE QuoteMaskFrom(_, _)
QuoteMaskFrom(s, i) ==
    IF i > Len(s) THEN <<>>
    ELSE IF s[i] # QUOTE THEN <<"out">> \o QuoteMaskFrom(s, i + 1)
    ELSE IF ClosingQuote(s, i + 1) = 0 THEN [k \in 1..(Len(s) - i + 1) |-> "open"]
    ELSE [k \in 1..(ClosingQuote(s, i + 1) - i + 1) |-> "lit"]
         \o QuoteMaskFrom(s, ClosingQuote(s, i + 1) + 1)

QuoteMask(s) == QuoteMaskFrom(s, 1)

WholeWordAt(s, i) == BoundaryBefore(s, i) /\ BoundaryAfter(s, i)

DenylistedKeywords ==
    {"DROP", "DELETE", "INSERT", "UPDATE", "ALTER", "TRUNCATE", "EXEC",
     "EXECUTE", "CREATE", "GRANT", "REVOKE", "COPY", "LOAD"}

\* the positions where a denylisted keyword stands as a whole word
KeywordSites(s) ==
    {i \in 1..Len(s) : Upper(s[i]) \in DenylistedKeywords /\ WholeWordAt(s, i)}

FnDone == fn_pc # "input"

\* C6: a statement that gets past the SELECT and multi-statement checks and
\* has a denylisted keyword as a whole word outside every single-quoted
\* literal is rejected with the disallowed-operation reason; a statement whose
\* keywords all stand inside closed literals is not rejected for that reason.
C6_KeywordOutsideLiteralRejected ==
    FnDone =>
        LET s == fn_in.text
            mask == QuoteMask(s)
        IN  /\ (/\ \E i \in KeywordSites(s) : mask[i] = "out"
                /\ fn_out.reason \notin {R_NOT_SELECT, R_MULTI})
                    => fn_out.reason = R_DISALLOWED_OP
            /\ (\A i \in KeywordSites(s) : mask[i] = "lit")
                    => fn_out.reason # R_DISALLOWED_OP

\* C7 (as claimed): every text with ';' outside a single-quoted literal is
\* rejected with the multi-statement reason.
C7_SemicolonAlwaysMultiStatement ==
    FnDone =>
        ((\E i \in 1..Len(fn_in.text) :
              fn_in.text[i] = ";" /\ QuoteMask(fn_in.text)[i] = "out")
            => fn_out.reason = R_MULTI)

\* the text, trimmed, begins with the word SELECT in any letter case
BeginsWithSelect(s) ==
    /\ SkipSpaces(s, 1) <= Len(s)
    /\ Upper(s[SkipSpaces(s, 1)]) = "SELECT"

\* C7 (amended): every text that begins with SELECT and has ';' outside a
\* single-quoted literal is rejected with the multi-statement reason, a
\* single trailing ';' after a valid SELECT included.
C7_SelectWithSemicolonMultiStatement ==
    FnDone =>
        ((/\ BeginsWithSelect(fn_in.text)
          /\ \E i \in 1..Len(fn_in.text) :
                fn_in.text[i] = ";" /\ QuoteMask(fn_in.text)[i] = "out")
            => fn_out.reason = R_MULTI)

\* C7 witness: the valid SELECT followed by one trailing ';' was rejected
\* as a multi-statement text
C7_Witness ==
    /\ FnDone
    /\ fn_in.text = BaseSelect \o <<";">>
    /\ fn_out.reason = R_MULTI

\* the checks of _validate_sql in the order the specification lists them
ReasonOrder ==
    <<R_NOT_SELECT, R_MULTI, R_DISALLOWED_OP, R_COMMENT, R_FUNCTION, R_SYSTEM,
      R_SUBQUERY, R_UNION, R_TABLE>>

\* the reasons of checks 1 to n
ReasonsUpTo(n) == {ReasonOrder[k] : k \in 1..n}

\* the positions of a JOIN keyword, outside literals and set off by
\* whitespace, that is followed by a table name
JoinSites(s) ==
    {i \in 1..Len(s) :
        /\ Upper(s[i]) = "JOIN"
        /\ QuoteMask(s)[i] = "out"
        /\ i > 1 /\ IsSpace(s[i - 1])
        /\ i + 1 <= Len(s) /\ IsSpace(s[i + 1])
        /\ SkipSpaces(s, i + 1) <= Len(s)
        /\ IsWord(s[SkipSpaces(s, i + 1)])}

\* the table name after the JOIN at i
JoinedTable(s, i) ==
    SubSeq(s, SkipSpaces(s, i + 1), WordRunEnd(s, SkipSpaces(s, i + 1)))

\* the name is cyber_attacks up to letter case
SameTableIgnoringCase(w) == Len(w) = 1 /\ Lower(w[1]) = "cyber_attacks"

\* C8 (as claimed): a statement that passes checks 1 to 8 and joins a table
\* whose name is not exactly cyber_attacks, a name that differs only in
\* letter case included, is rejected with the foreign-table reason.
C8_JoinOtherSpellingRejected ==
    FnDone =>
        \A i \in JoinSites(fn_in.text) :
            (/\ JoinedTable(fn_in.text, i) # <<"cyber_attacks">>
             /\ fn_out.reason \notin ReasonsUpTo(8))
                => fn_out.reason = R_TABLE

\* C8 (amended): a statement that passes checks 1 to 8 and joins a table whose
\* name is not cyber_attacks in any letter case is rejected with the
\* foreign-table reason; joining a name that differs from cyber_attacks only
\* in letter case is joining the allowlisted table, and the statement
\* SELECT id FROM cyber_attacks JOIN <that name> is accepted.
C8_JoinForeignTableRejected ==
    FnDone =>
        /\ \A i \in JoinSites(fn_in.text) :
              (/\ ~SameTableIgnoringCase(JoinedTable(fn_in.text, i))
               /\ fn_out.reason \notin ReasonsUpTo(8))
                  => fn_out.reason = R_TABLE
        /\ \A x \in {"CYBER_ATTACKS", "Cyber_Attacks"} :
              fn_in.text = BaseSelect \o <<SP, "JOIN", SP, x>>
                  => fn_out.reason = None

\* C8 witness: JOIN users after the valid SELECT was rejected as a foreign
\* table
C8_Witness ==
    /\ FnDone
    /\ fn_in.text = BaseSelect \o <<SP, "JOIN", SP, "users">>
    /\ fn_out.reason = R_TABLE

\* the catalog name fragments the specification lists
CatalogFragments ==
    {"information_schema", "pg_catalog", "pg_tables", "pg_proc", "pg_shadow",
     "pg_roles", "pg_user", "pg_stat", "pg_settings", "pg_database",
     "pg_authid", "pg_class", "pg_namespace"}

\* C9: a statement in which a system-catalog name stands as a word of its
\* own and that passes checks 1 to 5 is rejected with the system-table
\* reason.
C9_CatalogFragmentRejected ==
    FnDone =>
        ((/\ \E i \in 1..Len(fn_in.text) :
                /\ FragmentsOf(fn_in.text[i]) \cap CatalogFragments # {}
                /\ WholeWordAt(fn_in.text, i)
          /\ fn_out.reason \notin ReasonsUpTo(5))
            => fn_out.reason = R_SYSTEM)

\* C10: _sanitize_sql applied to its own output of an accepted statement
\* changes nothing.
C10_SanitizeIdempotent ==
    fn_pc = "resanitized" => fn_out.twice = fn_out.once

\* C10 witness: an accepted statement whose LIMIT 1000 the first pass
\* rewrote went through the second pass
C10_Witness ==
    /\ fn_pc = "resanitized"
    /\ fn_in.text = BaseSelect \o <<SP, "LIMIT", SP, "1000">>
    /\ fn_out.once = BaseSelect \o <<SP, "LIMIT", SP, "100">>

\* the positions of the keyword LIMIT, a whole word outside literals
LimitClauses(s) ==
    {i \in 1..Len(s) :
        Upper(s[i]) = "LIMIT" /\ WholeWordAt(s, i) /\ QuoteMask(s)[i] = "out"}

\* the LIMIT at i is followed by whitespace and a number
HasCount(s, i) ==
    /\ i + 1 <= Len(s) /\ IsSpace(s[i + 1])
    /\ SkipSpaces(s, i + 1) <= Len(s)
    /\ WordRunEnd(s, SkipSpaces(s, i + 1)) >= SkipSpaces(s, i + 1)
    /\ \A k \in SkipSpaces(s, i + 1)..WordRunEnd(s, SkipSpaces(s, i + 1)) :
          s[k] \in DigitAtoms

CountAt(s, i) ==
    DigitRunValue(s, SkipSpaces(s, i + 1), WordRunEnd(s, SkipSpaces(s, i + 1)))

\* the statement has a LIMIT clause, and each of its LIMIT clauses has a
\* count of at most 100
ExplicitlyBounded(s) ==
    /\ LimitClauses(s) # {}
    /\ \A i \in LimitClauses(s) : HasCount(s, i) /\ CountAt(s, i) <= 100

\* C2: for an accepted statement whose literals are all closed and in which
\* every LIMIT keyword outside literals has a count (whatever the counts
\* are, and whatever literals and identifiers spell the word), the output of
\* _sanitize_sql has an explicit LIMIT clause and no LIMIT clause of more
\* than 100 rows.
C2_SanitizedStatementBounded ==
    (/\ fn_pc \in {"sanitized", "resanitized"}
     /\ \A i \in 1..Len(fn_in.text) : QuoteMask(fn_in.text)[i] # "open"
     /\ \A i \in LimitClauses(fn_in.text) : HasCount(fn_in.text, i))
        => ExplicitlyBounded(fn_out.once)

(***************************************************************************)
(* Properties of process_query (Spec)                                      *)
(***************************************************************************)
\* words that end a table reference
ClauseKeywords == {"JOIN", "WHERE", "GROUP", "ORDER", "LIMIT", "ON"}

\* a table reference begins at k: an identifier, double-quoted or not, with
\* any schema in front of it; name: the table's name, next: the position
\* after the reference
RECURSIVE TableRefAt(_, _)
TableRefAt(s, k) ==
    LET quoted == k <= Len(s) /\ s[k] = "\""
        first == IF quoted THEN k + 1 ELSE k
        last == WordRunEnd(s, first)
        after == IF quoted /\ last + 1 <= Len(s) /\ s[last + 1] = "\""
                 THEN last + 2 ELSE last + 1
    IN  IF after <= Len(s) /\ s[after] = "." /\ last >= first
        THEN TableRefAt(s, after + 1)
        ELSE [name |-> SubSeq(s, first, last), next |-> after]

\* the tables of the comma-separated list of references that begins at k
\* (each reference may have an alias)
RECURSIVE TableListAt(_, _)
TableListAt(s, k) ==
    LET ref == TableRefAt(s, SkipSpaces(s, k))
        a == SkipSpaces(s, ref.next)
        hasAlias == /\ a > ref.next /\ a <= Len(s) /\ IsWord(s[a])
                    /\ Upper(s[a]) \notin ClauseKeywords
        b == IF hasAlias THEN SkipSpaces(s, WordRunEnd(s, a) + 1) ELSE a
    IN  IF ref.name = <<>> THEN {}
        ELSE IF Len(ref.name) = 1 /\ Upper(ref.name[1]) \in ClauseKeywords THEN {}
        ELSE {ref.name} \cup
             (IF b <= Len(s) /\ s[b] = "," THEN TableListAt(s, b + 1) ELSE {})

\* every table a FROM or JOIN clause of the statement names
TablesNamed(s) ==
    UNION {TableListAt(s, i + 1) :
             i \in {j \in 1..Len(s) : /\ Upper(s[j]) \in {"FROM", "JOIN"}
                                      /\ WholeWordAt(s, j)
                                      /\ QuoteMask(s)[j] = "out"}}

\* C1: every statement execute_query_safe hands to the database names no
\* table but cyber_attacks in its FROM and JOIN clauses.
C1_ExecutedOnlyAllowedTable ==
    \A k \in 1..Len(db_log) : TablesNamed(db_log[k]) \subseteq {<<"cyber_attacks">>}

\* C3: the generator is called at most twice and execute_query_safe at most
\* twice in one request, and a request whose second execution failed ends
\* with query_error.
C3_AtMostOneRetry ==
    /\ llm_calls <= 2
    /\ Len(safe_calls) <= 2
    /\ (pc = "done" /\ Len(safe_calls) = 2 /\ ~query_result.success)
          => response.message = "query_error"

\* C3 witness: a request that called the generator twice and executed twice
\* ended with query_error
C3_Witness ==
    /\ pc = "done"
    /\ llm_calls = 2
    /\ Len(safe_calls) = 2
    /\ ~query_result.success
    /\ response.message = "query_error"

\* the question is empty, shorter than 3, longer than 1000, or longer than 5
\* with fewer than half of its characters alphanumeric or spaces
QuestionInvalid(q) ==
    \/ TextLen(q) < 3
    \/ TextLen(q) > 1000
    \/ (TextLen(q) > 5 /\ 2 * AlnumCount(q) < TextLen(q))

\* C4: once the question is normalized and found invalid the request is
\* over with invalid_query, and neither the generator nor the database was
\* called.
C4_InvalidQuestionFailsFast ==
    (pc # "start" /\ QuestionInvalid(clean_query)) =>
        /\ pc = "done"
        /\ response.message = "invalid_query"
        /\ llm_calls = 0
        /\ safe_calls = <<>>
        /\ db_log = <<>>

\* C4 witness: a question of more than 1000 characters was refused
C4_Witness ==
    /\ pc = "done"
    /\ TextLen(clean_query) > 1000
    /\ response.message = "invalid_query"
    /\ llm_calls = 0

\* the generator's parsed answer says the data is not available, or has no
\* SQL in it
GeneratorDeclined ==
    /\ parsed_response.parsed
    /\ (~parsed_response.available \/ parsed_response.sql = NO_SQL)

\* C5 (as claimed): every returned status is one of success, no_results,
\* not_available, invalid_query, query_blocked, query_error, error,
\* rate_limited, and it is not_available when the generator declines.
C5_StatusInClaimedSet ==
    pc = "done" =>
        /\ response.message \in
              {"success", "no_results", "not_available", "invalid_query",
               "query_blocked", "query_error", "error", "rate_limited"}
        /\ GeneratorDeclined => response.message = "not_available"

\* C5 (amended): every returned status is one of success, no_results,
\* "not available" (with a space), invalid_query, query_blocked, query_error,
\* error, rate_limited, and it is "not available" when the generator declines.
C5_StatusInReturnedSet ==
    pc = "done" =>
        /\ response.message \in
              {"success", "no_results", "not available", "invalid_query",
               "query_blocked", "query_error", "error", "rate_limited"}
        /\ GeneratorDeclined => response.message = "not available"

\* C5 witness: the generator gave an answer without SQL and the request
\* ended with "not available"
C5_Witness ==
    /\ pc = "done"
    /\ parsed_response = Parsed(TRUE, NO_SQL)
    /\ response.message = "not available"

(***************************************************************************)
(* Properties of the wildcard rewrite (SpecSql)                            *)
(***************************************************************************)
FnSanitized == fn_pc \in {"sanitized", "resanitized"}

\* the text is SELECT * FROM cyber_attacks, in any letter case and spacing,
\* and whatever follows it
IsWildcardSelect(s) ==
    LET sel == SkipSpaces(s, 1)
        star == SkipSpaces(s, sel + 1)
        from == SkipSpaces(s, star + 1)
        table == SkipSpaces(s, from + 1)
    IN  /\ table <= Len(s)
        /\ Upper(s[sel]) = "SELECT"
        /\ s[star] = "*"
        /\ Upper(s[from]) = "FROM"
        /\ table > from + 1
        /\ Lower(s[table]) = "cyber_attacks"
        /\ (table = Len(s) \/ ~IsWord(s[table + 1]))

\* the first position of the word w, in any letter case (0: none)
FirstWord(s, w) ==
    IF \E i \in 1..Len(s) : Upper(s[i]) = w
    THEN CHOOSE i \in 1..Len(s) :
            Upper(s[i]) = w /\ \A j \in 1..(i - 1) : Upper(s[j]) # w
    ELSE 0

\* the positions of the select list: between the first SELECT and the first
\* FROM
SelectListPositions(s) ==
    {i \in 1..Len(s) :
        FirstWord(s, "SELECT") < i /\ i < FirstWord(s, "FROM") /\ IsWord(s[i])}

\* C11: the canonical form of a wildcard select has no '*' in it, and its
\* select list names each of the 17 columns of VALID_COLUMNS once and
\* nothing else.
C11_WildcardBecomesAllColumns ==
    (FnSanitized /\ IsWildcardSelect(fn_in.text)) =>
        /\ ~Contains(fn_out.once, "*")
        /\ {fn_out.once[i] : i \in SelectListPositions(fn_out.once)} = VALID_COLUMNS
        /\ Cardinality(SelectListPositions(fn_out.once)) = Cardinality(VALID_COLUMNS)

(***************************************************************************)
(* Properties of the retry and of the returned dict (Spec)                 *)
(***************************************************************************)
\* what _validate_sql says of each statement the generator may propose
ValidationOf == [s \in GenSql |-> _validate_sql(s)]

\* the statements process_query may hand to execute_query_safe: _sanitize_sql
\* of a statement of the generator that _validate_sql accepts
ExecutableSql == {_sanitize_sql(s) : s \in {g \in GenSql : ValidationOf[g] = None}}

\* the request is over after a second execution that succeeded
RetrySucceeded == pc = "done" /\ Len(safe_calls) = 2 /\ query_result.success

\* C12: a request whose first execution failed and whose retried statement
\* executed successfully returns success or no_results; its sql field is the
\* statement of the second execution, and its data and row_count are those
\* of the second execution.
C12_RetriedSqlRecorded ==
    RetrySucceeded =>
        /\ response.message \in {"success", "no_results"}
        /\ response.success
        /\ response.sql = safe_calls[2]
        /\ response.sql \in ExecutableSql
        /\ response.data = query_result.data
        /\ response.row_count = query_result.row_count

\* C12 witness: a successful retry with a statement other than the first one
C12_Witness ==
    /\ RetrySucceeded
    /\ safe_calls[1] # safe_calls[2]
    /\ response.message = "success"
    /\ response.sql = safe_calls[2]

\* the request is over and its last execution succeeded
FinalExecutionSucceeded == pc = "done" /\ query_result.success

\* C13: a request whose last execution succeeded with no rows returns
\* no_results with success true, no data rows, row_count 0 and a note that
\* is not empty; one that succeeded with rows returns success, and its
\* row_count is the number of rows it returns.
C13_EmptyResultIsNoResults ==
    FinalExecutionSucceeded =>
        IF query_result.row_count = 0
        THEN /\ response.message = "no_results"
             /\ response.success
             /\ response.data = 0
             /\ response.row_count = 0
             /\ "note" \in response.keys
             /\ response.note # ""
        ELSE /\ response.message = "success"
             /\ response.success
             /\ response.row_count >= 1
             /\ response.row_count = response.data
             /\ response.row_count = query_result.row_count

\* C13 witness: an execution that returned no rows ended with no_results
C13_Witness ==
    /\ FinalExecutionSucceeded
    /\ query_result.row_count = 0
    /\ response.message = "no_results"
    /\ response.note = NOTE_NO_RESULTS

\* the generator's first answer has a statement that _validate_sql rejects
InitialSqlRejected ==
    /\ parsed_response.parsed
    /\ parsed_response.available
    /\ parsed_response.sql # NO_SQL
    /\ ValidationOf[parsed_response.sql] # None

\* C14: once the generator's first statement is rejected by _validate_sql the
\* request is over with query_blocked and the validator's reason; the
\* generator was called once, and execute_query_safe and the database not at
\* all.
C14_RejectedSqlBlocked ==
    InitialSqlRejected =>
        /\ pc = "done"
        /\ response.message = "query_blocked"
        /\ response.reason = <<BLOCKED_PREFIX, ValidationOf[parsed_response.sql]>>
        /\ llm_calls = 1
        /\ safe_calls = <<>>
        /\ db_log = <<>>

\* C14 witness: a statement with a trailing ';' was blocked as a
\* multi-statement text
C14_Witness ==
    /\ pc = "done"
    /\ parsed_response.sql = BaseSelect \o <<";">>
    /\ response.message = "query_blocked"
    /\ response.reason = <<BLOCKED_PREFIX, R_MULTI>>
    /\ llm_calls = 1

\* a generator call that timed out or could not connect
TransportFailures == {"connect_error", "timeout"}

\* C15 (as claimed): a generator call that times out or fails to connect,
\* the first one or the retry, is the request's last generator call, and the
\* request ends with status error.
C15_TransportFailureIsError ==
    \A i \in 1..Len(llm_log) :
        llm_log[i] \in TransportFailures =>
            /\ i = Len(llm_log)
            /\ pc = "done" => response.message = "error"

\* C15 (amended): a generator call that times out or fails to connect is the
\* request's last generator call; when it is the first call the request ends
\* at once with status error and the message of that failure, and when it is
\* the retry call the failure is swallowed and the request ends with
\* query_error and the error of the first execution.
C15_TransportFailureEndsRequest ==
    \A i \in 1..Len(llm_log) :
        llm_log[i] \in TransportFailures =>
            /\ i = Len(llm_log)
            /\ i = 1 =>
                 /\ pc = "done"
                 /\ response.message = "error"
                 /\ response.error = (IF llm_log[i] = "timeout" THEN E_TIMEOUT
                                                                ELSE E_CONNECT)
            /\ i = 2 =>
                 /\ pc \in {"respond", "done"}
                 /\ Len(safe_calls) = 1
                 /\ pc = "done" =>
                      /\ response.message = "query_error"
                      /\ response.error = query_result.error

\* C15 witness: the retry call timed out and the request ended with
\* query_error
C15_Witness ==
    /\ pc = "done"
    /\ llm_log = <<"sql", "timeout">>
    /\ response.message = "query_error"

\* the error texts the code has as literals: the three of the except clauses
\* of process_query, and those of execute_query_safe
GenericErrors ==
    {E_CONNECT, E_TIMEOUT, E_INTERNAL,
     "Query execution failed",
     "Only SELECT queries are allowed",
     "Multiple SQL statements are not allowed",
     "Query contains a disallowed operation",
     "SQL comments are not allowed",
     "Query contains a disallowed function",
     "Access to system tables is not allowed",
     "Subqueries in FROM clause are not allowed",
     "UNION queries are not allowed",
     "Only the 'cyber_attacks' table can be queried"}

\* C16: the error field of a response is one of the fixed generic texts and
\* never the text of an exception the database call raised; a request whose
\* last execution raised reports "Query execution failed" whatever the engine
\* said, and one that ended in an unhandled exception reports the internal
\* error text.
C16_NoEngineTextInResponse ==
    pc = "done" =>
        /\ "error" \in response.keys => response.error \in GenericErrors
        /\ \A k \in 1..Len(db_raised) :
              response.error # db_raised[k] /\ response.reason[2] # db_raised[k]
        /\ (response.message = "query_error" /\ Len(db_raised) = Len(safe_calls))
              => response.error = "Query execution failed"
        /\ (llm_log # <<>> /\ llm_log[1] = "exception")
              => response.error = E_INTERNAL

\* C16 witness: the engine complained of a column, and the response says
\* only that the execution failed
C16_Witness ==
    /\ pc = "done"
    /\ db_raised # <<>>
    /\ db_raised[Len(db_raised)] = ExecuteQueryError(DB_RAISES_COLUMN)
    /\ response.message = "query_error"
    /\ response.error = "Query execution failed"

\* the retry call gave a statement, and _validate_sql rejected it
RetriedSqlRejected ==
    /\ Len(llm_log) = 2
    /\ llm_log[2] = "sql"
    /\ pc \in {"respond", "done"}
    /\ _validate_sql(retried_sql) # None

\* C17: the statement of a second execution is _sanitize_sql of a statement
\* of the generator that _validate_sql accepts; a retried statement that
\* _validate_sql rejects is not executed, and the request ends with
\* query_error.
C17_RetryValidatedBeforeExecution ==
    /\ Len(safe_calls) = 2 => safe_calls[2] \in ExecutableSql
    /\ pc = "execute_retry" => retried_sql \in ExecutableSql
    /\ RetriedSqlRejected =>
          /\ Len(safe_calls) = 1
          /\ pc = "done" => response.message = "query_error"

\* C17 witness: the retried statement had a trailing ';', was not executed,
\* and the request ended with query_error
C17_Witness ==
    /\ pc = "done"
    /\ llm_log = <<"sql", "sql">>
    /\ retried_sql = BaseSelect \o <<";">>
    /\ Len(safe_calls) = 1
    /\ response.message = "query_error"

(***************************************************************************)
(* Properties of the order and of the function check of _validate_sql      *)
(* (SpecSql)                                                               *)
(***************************************************************************)
\* check k of the nine fails on the stripped text, given the text without
\* its literals and that in upper case
CheckFails(k, clean, bare, upper) ==
    CASE k = 1 -> ~StartsWithSelect(clean)
      [] k = 2 -> Contains(bare, ";")
      [] k = 3 -> SearchAnyWord(upper, dangerous_patterns)
      [] k = 4 -> ContainsPair(bare, "-", "-") \/ ContainsPair(bare, "/", "*")
      [] k = 5 -> SearchAnyWordIgnoreCase(clean, blind_sqli_patterns)
      [] k = 6 -> SearchAnyFragment(clean, system_patterns)
      [] k = 7 -> SearchFromParen(bare)
      [] k = 8 -> SearchAnyWord(upper, {"UNION"})
      [] k = 9 -> ForeignTableReferenced(bare)

FailingChecks(sql) ==
    LET clean == Strip(sql)
        bare == StripLiterals(clean)
        upper == UpperSeq(bare)
    IN  {k \in 1..9 : CheckFails(k, clean, bare, upper)}

\* C18: _validate_sql returns the reason of the first check that fails, in
\* the order not-SELECT, multi-statement, disallowed operation, comment,
\* disallowed function, system table, FROM-subquery, UNION, foreign table,
\* and None exactly when none of the nine fails.
C18_FirstFailingCheckReported ==
    FnDone =>
        LET failing == FailingChecks(fn_in.text)
        IN  /\ fn_out.reason = None <=> failing = {}
            /\ \A k \in failing :
                  (\A j \in failing : k <= j) => fn_out.reason = ReasonOrder[k]

\* C18 witness: a text with both a comment and UNION in it was rejected for
\* the comment
C18_Witness ==
    /\ FnDone
    /\ {4, 8} \subseteq FailingChecks(fn_in.text)
    /\ fn_out.reason = R_COMMENT

\* the function names of check 5
FunctionNames ==
    {"pg_sleep", "sleep", "benchmark", "waitfor", "delay", "dblink",
     "lo_import", "lo_export"}

\* C19: a statement that passes checks 1 to 4 and has one of the function
\* names in it as a whole word, in any letter case, inside a single-quoted
\* literal or outside, is rejected with the disallowed-function reason.
C19_FunctionNameAnywhereRejected ==
    FnDone =>
        ((/\ fn_out.reason \notin ReasonsUpTo(4)
          /\ \E i \in 1..Len(fn_in.text) :
                /\ Lower(fn_in.text[i]) \in FunctionNames
                /\ WholeWordAt(fn_in.text, i))
            => fn_out.reason = R_FUNCTION)

\* C19 witness: the upper-case name inside a literal was rejected
C19_Witness ==
    /\ FnDone
    /\ fn_in.text = BaseSelect \o <<SP, QUOTE, "PG_SLEEP", QUOTE>>
    /\ fn_out.reason = R_FUNCTION

(***************************************************************************)
(* Properties of the LIMIT rewrite (SpecSql)                               *)
(***************************************************************************)
\* the statement's literals are all closed and it has exactly one LIMIT
\* clause, with a count
HasOneLimit(s) ==
    /\ \A i \in 1..Len(s) : QuoteMask(s)[i] # "open"
    /\ Cardinality(LimitClauses(s)) = 1
    /\ \A i \in LimitClauses(s) : HasCount(s, i)

\* the count of that clause
TheLimit(s) == CountAt(s, CHOOSE i \in LimitClauses(s) : TRUE)

\* C20: for an accepted statement with one LIMIT n, the output of
\* _sanitize_sql has one LIMIT clause too; its count is n if n <= 100 and
\* 100 if n > 100, so it is never larger than n.
C20_LimitOnlyTightened ==
    (FnSanitized /\ HasOneLimit(fn_in.text)) =>
        /\ HasOneLimit(fn_out.once)
        /\ TheLimit(fn_in.text) <= 100
              => TheLimit(fn_out.once) = TheLimit(fn_in.text)
        /\ TheLimit(fn_in.text) > 100 => TheLimit(fn_out.once) = 100
        /\ TheLimit(fn_out.once) <= TheLimit(fn_in.text)

(***************************************************************************)
(* Properties of the row ceiling of execute_query_safe (Spec)              *)
(***************************************************************************)
\* the last call of execute_query_safe was a success
LastExecutionSucceeded ==
    /\ pc \in {"respond", "done"}
    /\ query_result.success
    /\ db_fetched # <<>>

\* the rows execute_query returned in that call
LastFetched == db_fetched[Len(db_fetched)]

\* C21: a successful execute_query_safe returns at most 100 rows; they are
\* the rows execute_query returned up to the 100th, in the same order;
\* row_count is the number of rows returned, and truncated is true exactly
\* when execute_query returned more than 100 rows.
C21_FirstHundredRows ==
    LastExecutionSucceeded =>
        /\ Len(query_result.rows) <= 100
        /\ Len(query_result.rows) <= Len(LastFetched)
        /\ \A i \in 1..Len(query_result.rows) : query_result.rows[i] = LastFetched[i]
        /\ Len(LastFetched) <= 100 => Len(query_result.rows) = Len(LastFetched)
        /\ Len(LastFetched) > 100 => Len(query_result.rows) = 100
        /\ query_result.row_count = Len(query_result.rows)
        /\ query_result.data = Len(query_result.rows)
        /\ query_result.truncated <=> Len(LastFetched) > 100

\* C21 witness: 101 rows were fetched; the first 100 were returned and the
\* result is marked truncated
C21_Witness ==
    /\ LastExecutionSucceeded
    /\ Len(LastFetched) = 101
    /\ query_result.rows = SubSeq(LastFetched, 1, 100)
    /\ query_result.row_count = 100
    /\ query_result.truncated

\* C22: a request whose last execution was truncated by execute_query_safe
\* returns a dict with the key "truncated"; stated for executed statements
\* without a LIMIT clause, which the database answers with all their rows.
C22_TruncationReported ==
    (/\ pc = "done"
     /\ query_result.success
     /\ query_result.truncated
     /\ LimitClauses(safe_calls[Len(safe_calls)]) = {})
        => "truncated" \in response.keys

(***************************************************************************)
(* Properties of Step 1: _sanitize_input and _validate_input (SpecInput)   *)
(***************************************************************************)
\* Step 1 has run
InputChecked == pc # "start"

\* C23: the normalized question has no whitespace at either end, no NUL
\* byte, no whitespace other than single spaces, and no two spaces in a row.
C23_NormalizedTextIsClean ==
    InputChecked =>
        /\ clean_query # <<>> =>
              /\ ~IsTextSpace(clean_query[1])
              /\ ~IsTextSpace(clean_query[Len(clean_query)])
        /\ \A i \in 1..Len(clean_query) :
              /\ clean_query[i] # NUL
              /\ IsTextSpace(clean_query[i]) => clean_query[i] = SP
        /\ \A i \in 1..(Len(clean_query) - 1) :
              ~(IsTextSpace(clean_query[i]) /\ IsTextSpace(clean_query[i + 1]))

\* C24: the text that is validated is the normalized one; the question is
\* rejected with invalid_query exactly when the normalized text is empty,
\* shorter than 3, longer than 1000, or longer than 5 with fewer than half
\* of its characters alphanumeric or whitespace, and goes on to the generator
\* otherwise; normalized texts of 3 and of 1000 characters that meet the
\* ratio rule go on.
C24_ValidationOnNormalizedText ==
    InputChecked =>
        LET normalized == _sanitize_input(raw_query)
        IN  /\ clean_query = normalized
            /\ (pc = "done" /\ response.message = "invalid_query")
                  <=> QuestionInvalid(normalized)
            /\ pc = "call_llm" <=> ~QuestionInvalid(normalized)
            /\ (/\ TextLen(normalized) \in {3, 1000}
                /\ 2 * AlnumCount(normalized) >= TextLen(normalized))
                  => pc = "call_llm"

\* C24 witness: a question of 1001 characters whose normalized text has 1000
\* was accepted
C24_Witness ==
    /\ InputChecked
    /\ TextLen(raw_query) = 1001
    /\ TextLen(clean_query) = 1000
    /\ pc = "call_llm"

(***************************************************************************)
(* Properties of the pool and of execute_query (SpecPool)                  *)
(***************************************************************************)
\* the coroutines that hold a connection of pool p
Holders(p) == {t \in DOMAIN tasks : tasks[t].conn /\ tasks[t].pool = p}

\* every call of execute_query is over
AllTasksDone == tasks # <<>> /\ \A t \in DOMAIN tasks : tasks[t].pc = "done"

\* C25: a pool's count of held connections is the number of coroutines
\* inside get_connection; a coroutine that has left execute_query, with rows
\* or with an exception, holds none, so once all have left no connection is
\* held; and a statement runs only inside a read-only transaction.
C25_ConnectionsReleased ==
    /\ \A p \in 1..Len(pools) : pools[p] = Cardinality(Holders(p))
    /\ \A t \in DOMAIN tasks : tasks[t].pc = "done" => ~tasks[t].conn
    /\ AllTasksDone => \A p \in 1..Len(pools) : pools[p] = 0
    /\ \A t \in DOMAIN tasks : tasks[t].ran_in \in {"never", "readonly"}
    /\ \A t \in DOMAIN tasks : tasks[t].outcome = "rows" => tasks[t].ran_in = "readonly"

\* C25 witness: all calls are over, one with rows and one with an exception
\* raised when the transaction could not be opened, and nothing is held
C25_Witness ==
    /\ AllTasksDone
    /\ \E t \in DOMAIN tasks : tasks[t].outcome = "rows"
    /\ \E t \in DOMAIN tasks :
          /\ tasks[t].outcome = "raised"
          /\ tasks[t].pool # NO_POOL
          /\ tasks[t].ran_in = "never"
    /\ \A p \in 1..Len(pools) : pools[p] = 0

\* C26: at most one pool is ever created, and all coroutines that got a
\* pool got the same one, which is the one _pool names.
C26_AtMostOnePool ==
    /\ Len(pools) <= 1
    /\ \A t \in DOMAIN tasks : tasks[t].pool \in {NO_POOL, _pool}

(***************************************************************************)
(* Properties of the two layers of checks and of query_error (Spec)        *)
(***************************************************************************)
\* C27: every statement process_query passes to execute_query_safe, which
\* _validate_sql accepted and _sanitize_sql rewrote, gets past the static
\* checks to execute_query, so a failed execution is one the database
\* raised.
C27_GuardAcceptsValidated ==
    /\ Len(db_log) = Len(safe_calls)
    /\ (safe_calls # <<>> /\ ~query_result.success)
          => /\ query_result.error = G_EXEC_FAILED
             /\ Len(db_raised) = Len(safe_calls)

\* C28: in a query_error response the error is the one execute_query_safe
\* gave for the statement in the sql field: some outcome of the database
\* makes execute_query_safe return that error for that statement.
C28_SqlAndErrorOfSameAttempt ==
    (pc = "done" /\ response.message = "query_error") =>
        \E n \in DbOutcomes :
            /\ ~execute_query_safe(response.sql, n).success
            /\ execute_query_safe(response.sql, n).error = response.error

====
